---- MODULE Spec2Model ----
(***************************************************************************)
(* Model of Project.py: the ETL pipeline etl_processor and the loaders,    *)
(* persisters and summarizer it calls.                                     *)
(*                                                                         *)
(* Strings that the code inspects (paths, URLs, the typed output format)   *)
(* are sequences of tokens, so that startswith / endswith / split / strip  *)
(* / lower are computed, not assumed.  A Python dict is a sequence of      *)
(* <<key, value>> pairs with distinct keys, in insertion order.            *)
(***************************************************************************)
EXTENDS Integers, Sequences, FiniteSets, TLC

VARIABLES
    input_source,      \* etl_processor argument
    is_api,            \* etl_processor argument
    add_columns,       \* etl_processor argument: dict (sequence of pairs)
    remove_columns,    \* etl_processor argument: collection of column names
    save_destination,  \* etl_processor argument: a path, or NoDest for None
    remote,            \* what requests.get answers for input_source
    fs0,               \* the file system when the run starts
    fs,                \* the file system
    pc,                \* position of the run inside etl_processor
    data,              \* local variable data
    loaded,            \* value of data when the Load step finished
    loadFail,          \* why Load produced no data ("" when it produced some)
    steps,             \* pipeline steps executed so far, in order
    persisted,         \* persisters invoked so far, in order
    out,               \* notices printed by the persisters
    preSum,            \* report of the Pre-summary
    postSum,           \* report of the Post-summary
    sink,              \* output_format after strip().lower()
    sqlPc,             \* position inside save_to_sqlite
    sqlData,           \* argument data of the running save_to_sqlite call
    sqlIdx,            \* number of rows the running call has inserted
    txn,               \* rows inserted by the open transaction, uncommitted
    commits,           \* conn.commit() calls made by the running call
    dbBefore,          \* the database file when the running call started
    calls              \* number of save_to_sqlite calls started

vars == <<input_source, is_api, add_columns, remove_columns, save_destination,
          remote, fs0, fs, pc, data, loaded, loadFail, steps, persisted, out,
          preSum, postSum, sink, sqlPc, sqlData, sqlIdx, txn, commits,
          dbBefore, calls>>

etlVars == <<input_source, is_api, add_columns, remove_columns,
             save_destination, remote, fs0>>

sqlVars == <<sqlPc, sqlData, sqlIdx, txn, commits, dbBefore, calls>>

(***************************************************************************)
(* Bounds of the model.                                                    *)
(***************************************************************************)
\* longest dataset decoded from JSON
MaxLen == 2
\* most data rows of a CSV file
MaxRows == 2
\* most save_to_sqlite calls in a row
MaxCalls == 2

(***************************************************************************)
(* Python values.                                                          *)
(***************************************************************************)
\* the value None inside a record
NoneVal == "<None>"

Rec(f) == [isrec |-> TRUE, fields |-> f]

\* an element of a JSON list that is not a mapping (a number)
NonRec == [isrec |-> FALSE, fields |-> <<>>]

NoneData == [kind |-> "none", items |-> <<>>]

ListData(s) == [kind |-> "list", items |-> s]

\* a JSON number at top level
NumData == [kind |-> "num", items |-> <<>>]

\* a non-empty JSON object at top level (its keys are strings)
MapData == [kind |-> "map", items |-> <<>>]

\* the empty JSON object {} at top level
EmptyMapData == [kind |-> "emptymap", items |-> <<>>]

Range(s) == {s[i] : i \in 1..Len(s)}

Max(S) == CHOOSE x \in S : \A y \in S : y <= x

Keys(f) == [i \in 1..Len(f) |-> f[i][1]]

Values(f) == [i \in 1..Len(f) |-> f[i][2]]

HasKey(f, k) == \E i \in 1..Len(f) : f[i][1] = k

Get(f, k) == f[CHOOSE i \in 1..Len(f) : f[i][1] = k][2]

\* d[k] = v on a dict: overwrite in place, or insert at the end
DictSet(f, k, v) ==
    IF HasKey(f, k)
    THEN [i \in 1..Len(f) |-> IF f[i][1] = k THEN <<k, v>> ELSE f[i]]
    ELSE Append(f, <<k, v>>)

(***************************************************************************)
(* Files.                                                                  *)
(***************************************************************************)
Absent == [kind |-> "absent", rows |-> <<>>, value |-> NoneData,
           cols |-> <<>>, hasTable |-> FALSE]

\* CSV text: a sequence of lines, each a sequence of fields; <<>> is a blank
\* line, <<"">> is the line "" that csv.writer emits for one empty field
CsvFile(rows) == [kind |-> "csv", rows |-> rows, value |-> NoneData,
                  cols |-> <<>>, hasTable |-> FALSE]

JsonFile(v) == [kind |-> "json", rows |-> <<>>, value |-> v,
                cols |-> <<>>, hasTable |-> FALSE]

\* bytes that are neither decodable text, JSON, nor a database
BadFile == [kind |-> "bad", rows |-> <<>>, value |-> NoneData,
            cols |-> <<>>, hasTable |-> FALSE]

\* an SQLite file; table processed_data has columns cols and committed rows
DbFile(has, cols, rows) == [kind |-> "db", rows |-> rows, value |-> NoneData,
                            cols |-> cols, hasTable |-> has]

(***************************************************************************)
(* String operations the code applies to paths and to the typed format.    *)
(***************************************************************************)
StartsWith(s, p) == Len(s) >= Len(p) /\ SubSeq(s, 1, Len(p)) = p

EndsWith(s, p) == Len(s) >= Len(p) /\ SubSeq(s, Len(s) - Len(p) + 1, Len(s)) = p

\* s.split(sep)[-1]
SplitLast(s, sep) ==
    LET at == {i \in 1..Len(s) : s[i] = sep}
    IN  IF at = {} THEN s ELSE SubSeq(s, Max(at) + 1, Len(s))

IsSpace(c) == c \in {" ", "\t", "\n"}

\* s.strip()
Strip(s) ==
    LET ink == {i \in 1..Len(s) : ~IsSpace(s[i])}
    IN  IF ink = {} THEN <<>>
        ELSE SubSeq(s, CHOOSE i \in ink : \A j \in ink : i <= j, Max(ink))

LowerChar(c) ==
    CASE c = "C" -> "c" [] c = "S" -> "s" [] c = "V" -> "v" [] c = "J" -> "j"
      [] c = "O" -> "o" [] c = "N" -> "n" [] c = "Q" -> "q" [] c = "L" -> "l"
      [] c = "I" -> "i" [] c = "T" -> "t" [] c = "E" -> "e" [] c = "X" -> "x"
      [] c = "M" -> "m" [] OTHER -> c

\* s.lower()
Lower(s) == [i \in 1..Len(s) |-> LowerChar(s[i])]

(***************************************************************************)
(* Acquisition: load_csv, load_json.                                       *)
(***************************************************************************)
\* dict(zip(fieldnames, row)), then restval None for the fields the row lacks
RECURSIVE ZipRow(_, _, _, _)
ZipRow(h, r, i, acc) ==
    IF i > Len(h) THEN acc
    ELSE ZipRow(h, r, i + 1,
                DictSet(acc, h[i], IF i <= Len(r) THEN r[i] ELSE NoneVal))

\* list(csv.DictReader(file)): the first line is the header, blank lines are
\* skipped, every other line becomes one record
DictReader(rows) ==
    IF rows = <<>> THEN <<>>
    ELSE LET body == SelectSeq(Tail(rows), LAMBDA r : r # <<>>)
         IN  [i \in 1..Len(body) |-> Rec(ZipRow(rows[1], body[i], 1, <<>>))]

\* a missing or undecodable file raises inside the try: None is returned
load_csv(c) ==
    IF c.kind = "csv" THEN ListData(DictReader(c.rows)) ELSE NoneData

\* json.load of anything that is not JSON text raises inside the try
load_json(c) ==
    IF c.kind = "json" THEN c.value ELSE NoneData

(***************************************************************************)
(* Summarizer: print_summary.                                              *)
(***************************************************************************)
NoReport == [raises |-> FALSE, nodata |-> TRUE, records |-> 0, columns |-> 0]

Raised == [raises |-> TRUE, nodata |-> FALSE, records |-> 0, columns |-> 0]

\* print_summary counting the columns of the last record
print_summary_last(d) ==
    IF d.kind # "list" \/ Len(d.items) = 0 \/ \E i \in 1..Len(d.items) : ~d.items[i].isrec
    THEN NoReport
    ELSE [raises |-> FALSE, nodata |-> FALSE, records |-> Len(d.items),
          columns |-> Len(d.items[Len(d.items)].fields)]

\* len(data) raises on a number; data[0] raises on a mapping; data[0].keys()
\* raises on a non-mapping; row.get raises on a non-mapping row once the
\* first record has a column
print_summary(d) ==
    CASE d.kind = "none" -> NoReport
      [] d.kind = "num" -> Raised
      [] d.kind = "emptymap" -> NoReport
      [] d.kind = "map" -> Raised
      [] OTHER ->
            IF Len(d.items) = 0 THEN NoReport
            ELSE IF ~d.items[1].isrec THEN Raised
            ELSE IF /\ Len(d.items[1].fields) > 0
                    /\ \E i \in 1..Len(d.items) : ~d.items[i].isrec THEN Raised
            ELSE [raises |-> FALSE, nodata |-> FALSE,
                  records |-> Len(d.items),
                  columns |-> Len(d.items[1].fields)]

(***************************************************************************)
(* Transformer: the two blocks of etl_processor.                           *)
(***************************************************************************)
\* the comprehension raises TypeError, which except KeyError does not catch,
\* when it iterates None, a number, a key of a mapping, or a non-mapping row
RemoveRaises(d, rm) ==
    /\ rm # {}
    /\ \/ d.kind \in {"none", "num", "map"}
       \/ d.kind = "list" /\ \E i \in 1..Len(d.items) : ~d.items[i].isrec

RemoveColumns(d, rm) ==
    IF rm = {} \/ RemoveRaises(d, rm) THEN d
    ELSE ListData([i \in 1..Len(d.items) |->
            Rec(SelectSeq(d.items[i].fields, LAMBDA p : p[1] \notin rm))])

RECURSIVE SetAll(_, _, _)
SetAll(f, add, j) ==
    IF j > Len(add) THEN f
    ELSE SetAll(DictSet(f, add[j][1], add[j][2]), add, j + 1)

\* rows before the first row that does not support item assignment
Assignable(d) ==
    IF \A i \in 1..Len(d.items) : d.items[i].isrec THEN Len(d.items)
    ELSE (CHOOSE i \in 1..Len(d.items) :
            /\ ~d.items[i].isrec
            /\ \A j \in 1..(i - 1) : d.items[j].isrec) - 1

\* the loop stops at the TypeError, which is caught; rows before it are set
AddColumns(d, add) ==
    IF add = <<>> \/ d.kind # "list" THEN d
    ELSE ListData([i \in 1..Len(d.items) |->
            IF i <= Assignable(d)
            THEN Rec(SetAll(d.items[i].fields, add, 1))
            ELSE d.items[i]])

(***************************************************************************)
(* Persister: save_as_csv, save_as_json, save_to_sqlite.                   *)
(***************************************************************************)
RenderVal(v) == IF v = NoneVal THEN "" ELSE v

\* DictWriter._dict_to_list: rowdict.get(key, '') for key in fieldnames
DictToRow(fn, f) ==
    [i \in 1..Len(fn) |-> IF HasKey(f, fn[i]) THEN RenderVal(Get(f, fn[i])) ELSE ""]

\* a row is refused when it is no mapping or has a key outside fieldnames
RowOk(fn, item) ==
    /\ item.isrec
    /\ \A k \in Range(Keys(item.fields)) : k \in Range(fn)

Written(fn, items) ==
    IF \A i \in 1..Len(items) : RowOk(fn, items[i]) THEN Len(items)
    ELSE (CHOOSE i \in 1..Len(items) :
            /\ ~RowOk(fn, items[i])
            /\ \A j \in 1..(i - 1) : RowOk(fn, items[j])) - 1

\* CsvText without writer.writeheader()
CsvTextNoHeader(fn, items) ==
    [i \in 1..Written(fn, items) |-> DictToRow(fn, items[i].fields)]

\* writer.writeheader() then writer.writerows(data)
CsvText(fn, items) ==
    <<fn>> \o [i \in 1..Written(fn, items) |-> DictToRow(fn, items[i].fields)]

\* save_as_csv opening the file before the emptiness test
save_as_csv_open_first(d, c) ==
    IF d.kind = "list" /\ Len(d.items) = 0
    THEN [file |-> CsvFile(<<>>), note |-> "No data to write to CSV."]
    ELSE [file |-> c, note |-> "Error saving CSV"]

save_as_csv(d, c) ==
    CASE d.kind \in {"none", "num", "map"} ->
            [file |-> c, note |-> "Error saving CSV"]
      [] d.kind = "emptymap" \/ Len(d.items) = 0 ->
            [file |-> c, note |-> "No data to write to CSV."]
      [] OTHER ->
            IF ~d.items[1].isrec
            THEN [file |-> c, note |-> "Error saving CSV"]
            ELSE LET fn == Keys(d.items[1].fields)
                 IN  [file |-> CsvFile(CsvText(fn, d.items)),
                      note |-> IF Written(fn, d.items) = Len(d.items)
                               THEN "Data saved as CSV"
                               ELSE "Error saving CSV"]

save_as_json(d, c) ==
    [file |-> JsonFile(d), note |-> "Data saved as JSON"]

\* sqlite3.connect creates the file when it is missing
Connect(c) == IF c.kind = "absent" THEN DbFile(FALSE, <<>>, <<>>) ELSE c

\* data[0].keys() and CREATE TABLE succeed: the file is a database, the
\* first element is a mapping, and it has a column
CanCreate(c, d) ==
    /\ c.kind = "db"
    /\ d.kind = "list"
    /\ Len(d.items) > 0
    /\ d.items[1].isrec
    /\ Len(d.items[1].fields) > 0

\* CreateTable dropping a table that exists and creating it again
CreateTableReplace(c, d) == DbFile(TRUE, Keys(d.items[1].fields), <<>>)

\* CREATE TABLE IF NOT EXISTS, executed outside any transaction
CreateTable(c, d) ==
    IF c.hasTable THEN c ELSE DbFile(TRUE, Keys(d.items[1].fields), <<>>)

\* INSERT INTO ... VALUES (?, ...) with list(row.values()): the statement
\* needs as many placeholders as the table has columns, and the row as many
\* values as there are placeholders
InsertOk(c, d, i) ==
    /\ d.items[i].isrec
    /\ Len(d.items[1].fields) = Len(c.cols)
    /\ Len(d.items[i].fields) = Len(d.items[1].fields)

Commit(c, pending) == [c EXCEPT !.rows = @ \o pending]

save_to_sqlite(d, c0) ==
    LET c == Connect(c0)
    IN  IF ~CanCreate(c, d) THEN [file |-> c, note |-> "Error saving to SQLite"]
        ELSE LET t == CreateTable(c, d)
             IN  IF \A i \in 1..Len(d.items) : InsertOk(t, d, i)
                 THEN [file |-> Commit(t, [i \in 1..Len(d.items) |->
                                              Values(d.items[i].fields)]),
                       note |-> "Data saved to SQLite database"]
                 ELSE [file |-> t, note |-> "Error saving to SQLite"]

(***************************************************************************)
(* Inputs of a run, drawn from small sets.                                 *)
(***************************************************************************)
SeqsUpTo(S, n) == UNION {[1..k -> S] : k \in 0..n}

\* elements of a decoded JSON list
Items == {NonRec, Rec(<<>>), Rec(<< <<"a", "x">> >>),
          Rec(<< <<"a", "x">>, <<"b", "">> >>)}

\* the dataset of the example scenario
ExampleData == ListData(<< Rec(<< <<"a", "1">>, <<"b", "2">> >>),
                           Rec(<< <<"a", "3">>, <<"b", "4">> >>) >>)

\* values json.load / response.json() can return
JsonValues ==
    {NoneData, NumData, MapData, EmptyMapData, ExampleData}
        \cup {ListData(s) : s \in SeqsUpTo(Items, MaxLen)}

Headers == {<<"a">>, <<"a", "b">>}

\* lines under a header: blank, all fields filled, all fields empty, short
LinesFor(h) ==
    {<<>>, [i \in 1..Len(h) |-> "x"], [i \in 1..Len(h) |-> ""]}
        \cup (IF Len(h) > 1 THEN {<<"x">>} ELSE {})

\* CSV files: the empty file, or a header and up to MaxRows lines
CsvTexts ==
    {<<>>} \cup UNION {{<<h>> \o b : b \in SeqsUpTo(LinesFor(h), MaxRows)} : h \in Headers}

LocalCsv == <<"data", ".", "csv">>

LocalJson == <<"data", ".", "json">>

LocalTxt == <<"data", ".", "txt">>

UrlCsv == <<"http", "://host", ".", "org/data", ".", "csv">>

UrlJson == <<"http", "://host", ".", "org/data", ".", "json">>

UrlTxt == <<"http", "://host", ".", "org/data", ".", "txt">>

\* a URL whose last path segment has no extension
UrlNoExt == <<"http", "://host", ".", "org/data">>

ApiUrl == <<"http", "://host", ".", "org/api">>

CustomDest == <<"out", ".", "dat">>

OutNames == {<<"output_data", ".", "csv">>, <<"output_data", ".", "json">>,
             <<"output_data", ".", "db">>, CustomDest}

FileNames ==
    {LocalCsv, LocalJson, LocalTxt} \cup OutNames
        \cup {<<"downloaded_file", ".", e>> : e \in {"csv", "json", "txt"}}

\* a file left at an output path by an earlier run
StaleFile == CsvFile(<< <<"old">>, <<"v">> >>)

NoRemote == [ok |-> FALSE, body |-> Absent]

Answer(body) == [ok |-> TRUE, body |-> body]

CsvBodies == {CsvFile(t) : t \in CsvTexts} \cup {BadFile}

JsonBodies == {JsonFile(v) : v \in JsonValues} \cup {BadFile}

Scenario(src, api, rem, c) == [src |-> src, api |-> api, remote |-> rem, content |-> c]

Scenarios ==
    {Scenario(ApiUrl, TRUE, r, Absent) : r \in {NoRemote} \cup {Answer(b) : b \in JsonBodies}}
    \cup {Scenario(UrlCsv, FALSE, r, Absent) : r \in {NoRemote} \cup {Answer(b) : b \in CsvBodies}}
    \cup {Scenario(UrlJson, FALSE, r, Absent) : r \in {NoRemote} \cup {Answer(b) : b \in JsonBodies}}
    \cup {Scenario(u, FALSE, r, Absent) :
              u \in {UrlTxt, UrlNoExt}, r \in {NoRemote, Answer(BadFile)}}
    \cup {Scenario(LocalCsv, FALSE, NoRemote, c) : c \in CsvBodies \cup {Absent}}
    \cup {Scenario(LocalJson, FALSE, NoRemote, c) : c \in JsonBodies \cup {Absent}}
    \cup {Scenario(LocalTxt, FALSE, NoRemote, BadFile)}

RemoveSets == {{}, {"b"}, {"a", "c"}}

AddMaps == {<<>>, << <<"tag", "x">> >>, << <<"b", "y">>, <<"tag", "x">> >>}

\* what the user types at the prompt
TypedFormats ==
    {<<"c", "s", "v">>, <<" ", "C", "s", "v", " ">>, <<"j", "s", "o", "n">>,
     <<"J", "S", "O", "N">>, <<"s", "q", "l", "i", "t", "e">>, <<"x", "m", "l">>, <<>>}

(***************************************************************************)
(* Orchestrator: the steps of etl_processor.                               *)
(***************************************************************************)
\* None as save_destination
NoDest == <<>>

\* f"downloaded_file.{file_extension}"
TmpName(ext) == <<"downloaded_file", ".">> \o ext

\* response.json() of a body that is not JSON raises a RequestException
fetch_data_from_api(rem) ==
    IF rem.ok /\ rem.body.kind = "json" THEN rem.body.value ELSE NoneData

\* open(destination, 'wb') raises FileNotFoundError, which is no
\* RequestException, when the name has a directory part: the working
\* directory holds the files of FileNames and no directory
download_file(rem, files, dest) ==
    IF ~rem.ok THEN [ok |-> FALSE, raises |-> FALSE, fs |-> files]
    ELSE IF dest \notin FileNames THEN [ok |-> FALSE, raises |-> TRUE, fs |-> files]
    ELSE [ok |-> TRUE, raises |-> FALSE, fs |-> [files EXCEPT ![dest] = rem.body]]

\* UrlParser with the final else branch falling back to the CSV parser
UrlParserDefaultCsv(ext) ==
    CASE ext = <<"json">> -> "json"
      [] OTHER -> "csv"

\* the parser chosen for a downloaded file
UrlParser(ext) ==
    CASE ext = <<"csv">> -> "csv"
      [] ext = <<"json">> -> "json"
      [] OTHER -> "none"

\* the parser chosen for a local path
LocalParser(src) ==
    CASE EndsWith(src, <<".", "csv">>) -> "csv"
      [] EndsWith(src, <<".", "json">>) -> "json"
      [] OTHER -> "none"

\* load_csv / load_json on a file, with the reason when no data comes back
Parse(parser, c) ==
    LET d == IF parser = "csv" THEN load_csv(c) ELSE load_json(c)
        why == CASE d # NoneData -> ""
                 [] parser = "json" /\ c.kind = "json" -> "null"
                 [] OTHER -> "parse"
    IN  [data |-> d, abort |-> FALSE, fail |-> why]

\* Step 1 of etl_processor
LoadStep(src, api, rem, files) ==
    IF api
    THEN LET d == fetch_data_from_api(rem)
         IN  [data |-> d, fs |-> files, abort |-> d = NoneData, raises |-> FALSE,
              fail |-> CASE d # NoneData -> "" [] rem.ok /\ rem.body.kind = "json" -> "null"
                         [] OTHER -> "fetch"]
    ELSE IF StartsWith(src, <<"http">>)
    THEN LET ext == SplitLast(src, ".")
             got == download_file(rem, files, TmpName(ext))
         IN  IF got.raises
             THEN [data |-> NoneData, fs |-> got.fs, abort |-> TRUE, raises |-> TRUE,
                   fail |-> "open"]
             ELSE IF ~got.ok
             THEN [data |-> NoneData, fs |-> got.fs, abort |-> TRUE, raises |-> FALSE,
                   fail |-> "download"]
             ELSE IF UrlParser(ext) = "none"
             THEN [data |-> NoneData, fs |-> got.fs, abort |-> TRUE, raises |-> FALSE,
                   fail |-> "unsupported"]
             ELSE LET r == Parse(UrlParser(ext), got.fs[TmpName(ext)])
                  IN  [data |-> r.data, fs |-> got.fs, abort |-> FALSE, raises |-> FALSE,
                       fail |-> r.fail]
    ELSE IF LocalParser(src) = "none"
    THEN [data |-> NoneData, fs |-> files, abort |-> TRUE, raises |-> FALSE,
          fail |-> "unsupported"]
    ELSE LET r == Parse(LocalParser(src), files[src])
         IN  [data |-> r.data, fs |-> files, abort |-> FALSE, raises |-> FALSE,
              fail |-> r.fail]

\* AfterCheck without the None test
AfterCheckNoGuard(d) == "transform"

\* "if data is None: return" between the Pre-summary and the column blocks
AfterCheck(d) == IF d = NoneData THEN "aborted-load" ELSE "transform"

\* Transformed with the two blocks in the other order
TransformedAddFirst(d, rm, add) == RemoveColumns(AddColumns(d, add), rm)

\* Step 3: the removal block, then the addition block
Transformed(d, rm, add) == AddColumns(RemoveColumns(d, rm), add)

\* input(...).strip().lower()
Normalize(typed) == Lower(Strip(typed))

\* Persister with the final else branch falling back to CSV
PersisterDefaultCsv(fmt) ==
    CASE fmt = <<"j", "s", "o", "n">> -> "json"
      [] fmt = <<"s", "q", "l", "i", "t", "e">> -> "sqlite"
      [] OTHER -> "csv"

\* the branch of the if/elif chain of step 5
Persister(fmt) ==
    CASE fmt = <<"c", "s", "v">> -> "csv"
      [] fmt = <<"j", "s", "o", "n">> -> "json"
      [] fmt = <<"s", "q", "l", "i", "t", "e">> -> "sqlite"
      [] OTHER -> "none"

DefaultDest(p) ==
    CASE p = "csv" -> <<"output_data", ".", "csv">>
      [] p = "json" -> <<"output_data", ".", "json">>
      [] OTHER -> <<"output_data", ".", "db">>

DestOf(dest, p) == IF dest = NoDest THEN DefaultDest(p) ELSE dest

Persist(p, d, c) ==
    CASE p = "csv" -> save_as_csv(d, c)
      [] p = "json" -> save_as_json(d, c)
      [] OTHER -> save_to_sqlite(d, c)

Load ==
    /\ pc = "load"
    /\ LET r == LoadStep(input_source, is_api, remote, fs)
       IN  /\ data' = r.data
           /\ loaded' = r.data
           /\ fs' = r.fs
           /\ loadFail' = r.fail
           /\ pc' = CASE r.raises -> "raised"
                      [] r.abort -> "aborted-load"
                      [] OTHER -> "presummary"
    /\ steps' = Append(steps, "Load")
    /\ UNCHANGED <<etlVars, sqlVars, persisted, out, preSum, postSum, sink>>

PreSummary ==
    /\ pc = "presummary"
    /\ preSum' = print_summary(data)
    /\ pc' = IF preSum'.raises THEN "raised" ELSE "check"
    /\ steps' = Append(steps, "Pre-summary")
    /\ UNCHANGED <<etlVars, sqlVars, fs, data, loaded, loadFail, persisted, out,
                   postSum, sink>>

CheckData ==
    /\ pc = "check"
    /\ pc' = AfterCheck(data)
    /\ UNCHANGED <<etlVars, sqlVars, fs, data, loaded, loadFail, steps, persisted,
                   out, preSum, postSum, sink>>

Transform ==
    /\ pc = "transform"
    /\ IF RemoveRaises(data, remove_columns)
       THEN pc' = "raised" /\ data' = data
       ELSE pc' = "select" /\ data' = Transformed(data, remove_columns, add_columns)
    /\ steps' = Append(steps, "Transform")
    /\ UNCHANGED <<etlVars, sqlVars, fs, loaded, loadFail, persisted, out,
                   preSum, postSum, sink>>

SelectSink ==
    /\ pc = "select"
    /\ \E typed \in TypedFormats :
          /\ sink' = Normalize(typed)
          /\ pc' = IF Persister(sink') = "none" THEN "aborted-format" ELSE "save"
    /\ steps' = Append(steps, "Select sink")
    /\ UNCHANGED <<etlVars, sqlVars, fs, data, loaded, loadFail, persisted, out,
                   preSum, postSum>>

Save ==
    /\ pc = "save"
    /\ LET p == Persister(sink)
           dest == DestOf(save_destination, p)
           r == Persist(p, data, fs[dest])
       IN  /\ fs' = [fs EXCEPT ![dest] = r.file]
           /\ out' = Append(out, r.note)
           /\ persisted' = Append(persisted, p)
    /\ pc' = "postsummary"
    /\ steps' = Append(steps, "Save")
    /\ UNCHANGED <<etlVars, sqlVars, data, loaded, loadFail, preSum, postSum, sink>>

PostSummary ==
    /\ pc = "postsummary"
    /\ postSum' = print_summary(data)
    /\ pc' = IF postSum'.raises THEN "raised" ELSE "completed"
    /\ steps' = Append(steps, "Post-summary")
    /\ UNCHANGED <<etlVars, sqlVars, fs, data, loaded, loadFail, persisted, out,
                   preSum, sink>>

Blank == [raises |-> FALSE, nodata |-> FALSE, records |-> 0, columns |-> 0]

SqlIdle ==
    /\ sqlPc = "idle"
    /\ sqlData = NoneData
    /\ sqlIdx = 0
    /\ txn = <<>>
    /\ commits = 0
    /\ dbBefore = Absent
    /\ calls = 0

Init ==
    /\ \E sc \in Scenarios, stale \in BOOLEAN :
          /\ input_source = sc.src
          /\ is_api = sc.api
          /\ remote = sc.remote
          /\ fs0 = [n \in FileNames |->
                      IF n = sc.src THEN sc.content
                      ELSE IF stale /\ n \in OutNames THEN StaleFile
                      ELSE Absent]
    /\ remove_columns \in RemoveSets
    /\ add_columns \in AddMaps
    /\ save_destination \in {NoDest, CustomDest}
    /\ fs = fs0
    /\ pc = "load"
    /\ data = NoneData
    /\ loaded = NoneData
    /\ loadFail = ""
    /\ steps = <<>>
    /\ persisted = <<>>
    /\ out = <<>>
    /\ preSum = Blank
    /\ postSum = Blank
    /\ sink = <<>>
    /\ SqlIdle

Next ==
    \/ Load
    \/ PreSummary
    \/ CheckData
    \/ Transform
    \/ SelectSink
    \/ Save
    \/ PostSummary

Spec == Init /\ [][Next]_vars

(***************************************************************************)
(* Properties of a run of etl_processor, checked under Spec.               *)
(***************************************************************************)
AllSteps == <<"Load", "Pre-summary", "Transform", "Select sink", "Save", "Post-summary">>

Ran(step) == step \in Range(steps)

Terminal == pc \in {"completed", "aborted-load", "aborted-format", "raised"}

KnownFormats == {<<"c", "s", "v">>, <<"j", "s", "o", "n">>, <<"s", "q", "l", "i", "t", "e">>}

IsUrl == ~is_api /\ StartsWith(input_source, <<"http">>)

DownloadName == <<"downloaded_file", ".">> \o SplitLast(input_source, ".")

\* the files as the Load step leaves them: the start state plus the download
AfterDownload ==
    IF IsUrl /\ remote.ok /\ DownloadName \in FileNames
    THEN [fs0 EXCEPT ![DownloadName] = remote.body]
    ELSE fs0

UnsupportedInput ==
    /\ ~is_api
    /\ ~EndsWith(input_source, <<".", "csv">>)
    /\ ~EndsWith(input_source, <<".", "json">>)

AllRecords(d) == d.kind = "list" /\ \A i \in 1..Len(d.items) : d.items[i].isrec

ColumnNames == {"a", "b", "c", "tag"}

\* C1: every run executes Load, Pre-summary, Transform, Select sink, Save,
\* Post-summary in that order, each at most once; it ends in completed,
\* aborted-load or aborted-format; completed only after all six steps; and
\* with a format among csv/json/sqlite the matching persister is invoked
\* exactly once and Post-summary runs after it.
C1_LinearPipeline ==
    /\ Len(steps) <= Len(AllSteps)
    /\ \A i \in 1..Len(steps) : \E j \in i..Len(AllSteps) : steps[i] = AllSteps[j]
    /\ \A i, j \in 1..Len(steps) : i < j =>
          \E a, b \in 1..Len(AllSteps) : a < b /\ steps[i] = AllSteps[a] /\ steps[j] = AllSteps[b]
    /\ Terminal => pc \in {"completed", "aborted-load", "aborted-format"}
    /\ pc = "completed" => steps = AllSteps
    /\ Terminal /\ sink \in KnownFormats =>
          /\ persisted = <<CASE sink = <<"c", "s", "v">> -> "csv"
                             [] sink = <<"j", "s", "o", "n">> -> "json"
                             [] OTHER -> "sqlite">>
          /\ steps = AllSteps
    /\ sink \notin KnownFormats => persisted = <<>>

\* C2 as stated: when Load fails (fetch, download, unsupported extension, or
\* a parse failure), no later step is executed.
C2_LoadFailureSkipsAll ==
    pc # "load" /\ loadFail \in {"fetch", "download", "open", "unsupported", "parse"}
        => steps = <<"Load">>

\* C2 as amended: after a fetch failure, a download failure or an
\* unsupported extension the run ends inside the Load step and no later
\* step is executed; after a parse failure Pre-summary alone is executed,
\* reports no data, and the run aborts before Transform, Select sink, Save
\* and Post-summary.
C2_LoadFailureAborts ==
    pc # "load" /\ loadFail \in {"fetch", "download", "open", "unsupported", "parse"} =>
        /\ data = NoneData
        /\ persisted = <<>>
        /\ out = <<>>
        /\ fs = AfterDownload
        /\ IF loadFail = "parse"
           THEN /\ pc \in {"presummary", "check", "aborted-load"}
                /\ pc = "presummary" => steps = <<"Load">>
                /\ pc # "presummary" =>
                      steps = <<"Load", "Pre-summary">> /\ preSum = NoReport
           ELSE /\ steps = <<"Load">>
                /\ pc = IF loadFail = "open" THEN "raised" ELSE "aborted-load"

C2_Witness ==
    /\ loadFail = "parse"
    /\ pc = "aborted-load"
    /\ steps = <<"Load", "Pre-summary">>
    /\ preSum.nodata

\* C3 as stated: with an extension that is neither .csv nor .json the run
\* aborts, invokes no persister, and creates or modifies no file.
C3_UnsupportedInputTouchesNothing ==
    pc # "load" /\ UnsupportedInput =>
        steps = <<"Load">> /\ persisted = <<>> /\ fs = fs0

\* C3 as amended: with an extension that is neither .csv nor .json the run
\* ends in the Load step and invokes no persister; no output file is
\* written, and the only file written is the temporary download of a URL
\* whose download succeeded (a local path touches no file at all).
C3_UnsupportedInputAborts ==
    pc # "load" /\ UnsupportedInput =>
        /\ pc \in {"aborted-load", "raised"}
        /\ steps = <<"Load">>
        /\ persisted = <<>>
        /\ \A n \in FileNames : n # DownloadName => fs[n] = fs0[n]
        /\ ~IsUrl => fs = fs0 /\ pc = "aborted-load"
        /\ IsUrl /\ remote.ok /\ pc = "aborted-load" => fs[DownloadName] = remote.body
        /\ IsUrl /\ ~remote.ok => fs = fs0 /\ pc = "aborted-load"
        /\ pc = "raised" => fs = fs0

C3_Witness ==
    /\ UnsupportedInput
    /\ IsUrl
    /\ pc = "aborted-load"
    /\ loadFail = "unsupported"
    /\ fs[<<"downloaded_file", ".", "txt">>] # Absent

\* C4: when the typed format, trimmed and lower-cased, is not csv, json or
\* sqlite, the run ends in aborted-format: no persister is invoked, nothing
\* is written, Post-summary does not run, and the files are as the Load
\* step left them (a downloaded temp file stays).
C4_UnsupportedFormatAborts ==
    Ran("Select sink") /\ sink \notin KnownFormats =>
        /\ pc = "aborted-format"
        /\ persisted = <<>>
        /\ out = <<>>
        /\ ~Ran("Save")
        /\ ~Ran("Post-summary")
        /\ fs = AfterDownload

C4_Witness ==
    /\ pc = "aborted-format"
    /\ sink = <<"x", "m", "l">>
    /\ IsUrl
    /\ fs[<<"downloaded_file", ".", "csv">>] = remote.body
    /\ fs # fs0

\* C5: on a sequence of records the Transform step yields, record by
\* record, the keys outside the removal set with their values, overwritten
\* by every key of the addition mapping: removal before addition, a removed
\* and added column present with the added value, an existing column
\* overwritten, an empty dataset left empty; and the example scenario.
C5_RemoveThenAdd ==
    Ran("Transform") /\ AllRecords(loaded) =>
        /\ pc # "raised"
        /\ AllRecords(data)
        /\ Len(data.items) = Len(loaded.items)
        /\ \A i \in 1..Len(data.items) :
              LET old == loaded.items[i].fields
                  new == data.items[i].fields
              IN  /\ \A a, b \in 1..Len(new) : new[a][1] = new[b][1] => a = b
                  /\ \A k \in ColumnNames :
                        IF HasKey(add_columns, k)
                        THEN HasKey(new, k) /\ Get(new, k) = Get(add_columns, k)
                        ELSE IF k \notin remove_columns /\ HasKey(old, k)
                        THEN HasKey(new, k) /\ Get(new, k) = Get(old, k)
                        ELSE ~HasKey(new, k)
                  /\ \A j \in 1..Len(new) : new[j][1] \in ColumnNames
        /\ (loaded = ExampleData /\ remove_columns = {"b"}
                /\ add_columns = << <<"tag", "x">> >>) =>
              data = ListData(<< Rec(<< <<"a", "1">>, <<"tag", "x">> >>),
                                 Rec(<< <<"a", "3">>, <<"tag", "x">> >>) >>)

C5_Witness ==
    /\ Ran("Transform")
    /\ AllRecords(loaded)
    /\ Len(loaded.items) = 2
    /\ remove_columns = {"b"}
    /\ HasKey(add_columns, "b")
    /\ HasKey(loaded.items[1].fields, "b")
    /\ Get(data.items[1].fields, "b") = "y"
    /\ Get(data.items[2].fields, "tag") = "x"

\* C6: for a non-empty dataset of records and no additions, the column
\* count of the Post-summary equals the column count of the Pre-summary
\* minus the number of removal columns present in the first record; removal
\* columns absent from the data raise nothing and change nothing.
C6_ColumnCountAfterRemoval ==
    AllRecords(loaded) /\ Len(loaded.items) > 0 /\ add_columns = <<>> =>
        /\ pc # "raised"
        /\ Ran("Transform") /\ remove_columns \cap Range(Keys(loaded.items[1].fields)) = {} =>
              data.items[1] = loaded.items[1]
        /\ pc = "completed" =>
              /\ ~preSum.nodata /\ ~postSum.nodata
              /\ postSum.records = preSum.records
              /\ postSum.columns = preSum.columns
                    - Cardinality({k \in remove_columns :
                                      HasKey(loaded.items[1].fields, k)})

C6_Witness ==
    /\ pc = "completed"
    /\ add_columns = <<>>
    /\ remove_columns = {"a", "c"}
    /\ preSum.columns = 2
    /\ postSum.columns = 1

\* C8: Save of the empty dataset [] as CSV touches no file and prints the
\* nothing-to-write notice; as JSON it creates the destination holding [].
C8_EmptyDatasetSave ==
    Ran("Save") /\ data = ListData(<<>>) =>
        /\ persisted = <<"csv">> =>
              fs = AfterDownload /\ out = <<"No data to write to CSV.">>
        /\ persisted = <<"json">> =>
              LET dest == IF save_destination = NoDest
                          THEN <<"output_data", ".", "json">> ELSE save_destination
              IN  /\ fs[dest] = JsonFile(ListData(<<>>))
                  /\ \A n \in FileNames : n # dest => fs[n] = AfterDownload[n]

C8_Witness ==
    /\ Ran("Save")
    /\ data = ListData(<<>>)
    /\ persisted = <<"csv">>
    /\ out = <<"No data to write to CSV.">>
    /\ save_destination = CustomDest
    /\ fs[CustomDest] = StaleFile

\* C9: no error terminates the run: print_summary never raises and
\* etl_processor always returns normally.
C9_NeverRaises == pc # "raised"

(***************************************************************************)
(* load_csv, save_as_csv, load_csv again: the CSV round trip.              *)
(***************************************************************************)
CsvValues == {"", "x"}

\* a header, then lines with one field per header column, or blank lines
WellFormedCsv ==
    UNION {{<<h>> \o b : b \in SeqsUpTo([1..Len(h) -> CsvValues] \cup {<<>>}, MaxRows)} :
              h \in Headers \cup {<<"a", "a">>}}

InitCsv ==
    /\ input_source = LocalCsv
    /\ is_api = FALSE
    /\ remote = NoRemote
    /\ add_columns = <<>>
    /\ remove_columns = {}
    /\ save_destination = CustomDest
    /\ \E t \in WellFormedCsv, stale \in BOOLEAN :
          fs0 = [n \in FileNames |->
                   IF n = LocalCsv THEN CsvFile(t)
                   ELSE IF stale /\ n = CustomDest THEN StaleFile
                   ELSE Absent]
    /\ fs = fs0
    /\ pc = "rt-load"
    /\ data = NoneData
    /\ loaded = NoneData
    /\ loadFail = ""
    /\ steps = <<>>
    /\ persisted = <<>>
    /\ out = <<>>
    /\ preSum = Blank
    /\ postSum = Blank
    /\ sink = <<>>
    /\ SqlIdle

RtLoad ==
    /\ pc = "rt-load"
    /\ loaded' = load_csv(fs[input_source])
    /\ pc' = "rt-save"
    /\ UNCHANGED <<etlVars, sqlVars, fs, data, loadFail, steps, persisted, out,
                   preSum, postSum, sink>>

RtSave ==
    /\ pc = "rt-save"
    /\ LET r == save_as_csv(loaded, fs[save_destination])
       IN  /\ fs' = [fs EXCEPT ![save_destination] = r.file]
           /\ out' = Append(out, r.note)
    /\ persisted' = Append(persisted, "csv")
    /\ pc' = "rt-reload"
    /\ UNCHANGED <<etlVars, sqlVars, data, loaded, loadFail, steps, preSum,
                   postSum, sink>>

RtReload ==
    /\ pc = "rt-reload"
    /\ data' = load_csv(fs[save_destination])
    /\ pc' = "rt-done"
    /\ UNCHANGED <<etlVars, sqlVars, fs, loaded, loadFail, steps, persisted, out,
                   preSum, postSum, sink>>

NextCsv ==
    \/ RtLoad
    \/ RtSave
    \/ RtReload

SpecCsv == InitCsv /\ [][NextCsv]_vars

\* C7 as stated: for every well-formed CSV file, header plus zero or more
\* rows, loading it, saving the result as CSV and loading the saved file
\* yields the records of the first load.
C7_RoundTripAlways == pc = "rt-done" => data = loaded

\* C7 as amended: for every well-formed CSV file from which load_csv reads
\* at least one record, loading it, saving the result as CSV and loading
\* the saved file yields the same records in the same order with the same
\* text per column.
C7_RoundTripNonEmpty ==
    pc = "rt-done" /\ Len(loaded.items) > 0 =>
        /\ data = loaded
        /\ fs[save_destination].kind = "csv"

C7_Witness ==
    /\ pc = "rt-done"
    /\ Len(loaded.items) = 2
    /\ Len(loaded.items[1].fields) = 1
    /\ loaded.items[1].fields[1][2] = ""
    /\ data = loaded

(***************************************************************************)
(* save_to_sqlite statement by statement, called repeatedly on one file.   *)
(***************************************************************************)
DbName == <<"output_data", ".", "db">>

SqlItems == {Rec(<< <<"a", "x">> >>), Rec(<< <<"a", "x">>, <<"b", "y">> >>),
             Rec(<< <<"c", "z">>, <<"d", "w">> >>)}

SqlDatasets == {ListData(s) : s \in SeqsUpTo(SqlItems, MaxLen)}

InitSqlite ==
    /\ input_source = LocalCsv
    /\ is_api = FALSE
    /\ remote = NoRemote
    /\ add_columns = <<>>
    /\ remove_columns = {}
    /\ save_destination = DbName
    /\ fs0 = [n \in FileNames |-> Absent]
    /\ fs = fs0
    /\ pc = "sqlite"
    /\ data = NoneData
    /\ loaded = NoneData
    /\ loadFail = ""
    /\ steps = <<>>
    /\ persisted = <<>>
    /\ out = <<>>
    /\ preSum = Blank
    /\ postSum = Blank
    /\ sink = <<>>
    /\ SqlIdle

sqlFrame == <<etlVars, pc, data, loaded, loadFail, steps, persisted, out,
              preSum, postSum, sink>>

\* sqlite3.connect, data[0].keys(), CREATE TABLE IF NOT EXISTS
SqlOpen ==
    /\ sqlPc = "idle"
    /\ calls < MaxCalls
    /\ \E d \in SqlDatasets :
          LET c == Connect(fs[DbName])
          IN  /\ sqlData' = d
              /\ IF CanCreate(c, d)
                 THEN fs' = [fs EXCEPT ![DbName] = CreateTable(c, d)] /\ sqlPc' = "insert"
                 ELSE fs' = [fs EXCEPT ![DbName] = c] /\ sqlPc' = "failed"
    /\ dbBefore' = fs[DbName]
    /\ calls' = calls + 1
    /\ commits' = 0
    /\ sqlIdx' = 0
    /\ txn' = <<>>
    /\ UNCHANGED sqlFrame

\* one cursor.execute("INSERT ...") of the loop; the row goes to the open
\* transaction, or the statement raises
SqlInsert ==
    /\ sqlPc = "insert"
    /\ sqlIdx < Len(sqlData.items)
    /\ IF InsertOk(fs[DbName], sqlData, sqlIdx + 1)
       THEN /\ txn' = Append(txn, Values(sqlData.items[sqlIdx + 1].fields))
            /\ sqlIdx' = sqlIdx + 1
            /\ sqlPc' = "insert"
       ELSE /\ sqlPc' = "failed"
            /\ UNCHANGED <<txn, sqlIdx>>
    /\ UNCHANGED <<fs, sqlData, commits, dbBefore, calls, sqlFrame>>

\* conn.commit() and conn.close() after the loop
SqlCommit ==
    /\ sqlPc = "insert"
    /\ sqlIdx = Len(sqlData.items)
    /\ fs' = [fs EXCEPT ![DbName] = Commit(fs[DbName], txn)]
    /\ commits' = commits + 1
    /\ txn' = <<>>
    /\ sqlPc' = "done"
    /\ UNCHANGED <<sqlData, sqlIdx, dbBefore, calls, sqlFrame>>

\* the function returns; after the except branch the connection is dropped
\* and its open transaction is rolled back
SqlReturn ==
    /\ sqlPc \in {"done", "failed"}
    /\ sqlPc' = "idle"
    /\ txn' = <<>>
    /\ UNCHANGED <<fs, sqlData, sqlIdx, commits, dbBefore, calls, sqlFrame>>

NextSqlite ==
    \/ SqlOpen
    \/ SqlInsert
    \/ SqlCommit
    \/ SqlReturn

SpecSqlite == InitSqlite /\ [][NextSqlite]_vars

NewRows == [i \in 1..Len(sqlData.items) |-> Values(sqlData.items[i].fields)]

\* the call's failure causes: empty dataset, or a record whose value count
\* differs from the table's column count
SqlMustFail ==
    \/ Len(sqlData.items) = 0
    \/ \E i \in 1..Len(sqlData.items) :
          Len(sqlData.items[i].fields) # Len(fs[DbName].cols)

\* C10 as stated: each call commits exactly once, after every insert; it
\* adds one row per record, or fails (empty dataset, value count differing
\* from the column count, or a table that exists with a different column
\* set) and adds no committed row; the columns stay those of the first call.
C10_CommitsExactlyOnce ==
    LET db == fs[DbName]
    IN  /\ sqlPc \in {"done", "failed"} => commits = 1
        /\ sqlPc = "done" => db.rows = dbBefore.rows \o NewRows
        /\ sqlPc = "failed" => db.rows = dbBefore.rows
        /\ sqlPc = "done" /\ dbBefore.hasTable =>
              Keys(sqlData.items[1].fields) = dbBefore.cols
        /\ sqlPc # "idle" /\ dbBefore.hasTable => db.cols = dbBefore.cols

\* C10 as amended: each call commits at most once: exactly once, after
\* every record was inserted, when it succeeds, and never when it fails.  A
\* successful call adds one row per record, in dataset order, values taken
\* positionally; a failing call (empty dataset, or a record whose value
\* count differs from the table's column count) adds no committed row.  A
\* table that exists with other column names but the same column count
\* does not make the call fail.  The columns stay those of the first call.
C10_CommitOnceAtEnd ==
    LET db == fs[DbName]
    IN  /\ commits <= 1
        /\ sqlPc \in {"insert", "failed"} =>
              commits = 0 /\ db.rows = dbBefore.rows
        /\ sqlPc = "done" =>
              /\ commits = 1
              /\ sqlIdx = Len(sqlData.items)
              /\ db.rows = dbBefore.rows \o NewRows
              /\ ~SqlMustFail
        /\ sqlPc = "failed" => SqlMustFail
        /\ sqlPc = "idle" => txn = <<>>
        /\ sqlPc # "idle" /\ dbBefore.hasTable =>
              db.hasTable /\ db.cols = dbBefore.cols
        /\ db.hasTable => \A i \in 1..Len(db.rows) : Len(db.rows[i]) = Len(db.cols)

C10_Witness ==
    /\ sqlPc = "done"
    /\ calls = 2
    /\ dbBefore.hasTable
    /\ Len(dbBefore.rows) > 0
    /\ dbBefore.cols = <<"a", "b">>
    /\ Keys(sqlData.items[1].fields) = <<"c", "d">>
    /\ Len(fs[DbName].rows) = Len(dbBefore.rows) + 2

====
